---- MODULE Spec2Model ----
(***************************************************************************)
(* Model of automation.py: the traversal loop of run_automation, the link  *)
(* selector pick_next_link, the click / export / download-wait stages and  *)
(* the browser's download manager writing .crdownload markers.             *)
(***************************************************************************)
EXTENDS Integers, Sequences, FiniteSets, TLC

\* ---------------------------------------------------------------- bounds
MaxCandidates == 2      \* elements returned by one scan of the page
MaxTargets == 2         \* entries of link_text_targets in the configuration
MaxDownloadWait == 2    \* the non-zero download_wait_timeout_seconds tried
MaxOutstanding == 1     \* downloads the browser has outstanding at once

\* The labels page elements bear: those tried on the selector alone, and those
\* of the pages a whole run scans
Labels == {"A", "B", "C"}
RunLabels == {"A", "B"}

\* str(item).strip() of a blank link_text_targets entry
Blank == ""

\* An element on which extract_label raises StaleElementReferenceException
Stale == "<stale>"

\* A page element is given by what extract_label does on it: the label it
\* returns, or Stale.
Elements(L) == L \cup {Stale}

SeqsUpTo(S, n) == UNION {[1..k -> S] : k \in 0..n}

\* Mutant: the scan also returns when find_elements finds nothing
Pages_or_empty(L) == SeqsUpTo(Elements(L), MaxCandidates)

\* find_elements results that end the WebDriverWait of collect_link_elements
Pages(L) == SeqsUpTo(Elements(L), MaxCandidates) \ {<<>>}

\* pick_next_link's "return None"
None == <<>>

VARIABLES
    pc,              \* stage of the traversal loop
    iteration,       \* run_automation: iteration
    link_elements,   \* run_automation: link_elements (last scan)
    next_item,       \* run_automation: next_item = (element, label) or None
    visited_labels,  \* run_automation: visited_labels
    target_texts,    \* run_automation: target_texts (<<>> is None)
    config,          \* the configuration values read at lines 74-77 and 257
    elapsed,         \* wait_for_downloads: seconds since its deadline was set (0 outside it)
    pending,         \* downloads requested whose .crdownload is not yet written
    markers,         \* .crdownload files in the download directory
    clicked,         \* history: labels whose click_element returned
    exported,        \* history: labels whose export control was clicked
    failed_in,       \* history: stage in which an exception left the loop
    attempts,        \* history: what click_element did for the link being opened, in
                     \* order; emptied once trigger_export has been called
    export_attempts, \* history: what this cycle's trigger_export call did to the
                     \* export control, in order
    sleeps,          \* history: one-second sleeps of this cycle's wait_for_downloads call
    quit_calls,      \* main: calls of driver.quit()
    outcome          \* main: "running", then "returned" or "raised"

vars == <<pc, iteration, link_elements, next_item, visited_labels, target_texts,
          config, elapsed, pending, markers, clicked, exported, failed_in,
          attempts, export_attempts, sleeps, quit_calls, outcome>>

main_vars == <<quit_calls, outcome>>

loop_vars == <<pc, iteration, link_elements, next_item, visited_labels,
               target_texts, config, elapsed, clicked, exported, failed_in,
               attempts, export_attempts, sleeps>>

\* ------------------------------------------------------- normalize_target_texts
RECURSIVE cleaned(_)
cleaned(raw) ==
    IF raw = <<>> THEN <<>>
    ELSE IF Head(raw) = Blank THEN cleaned(Tail(raw))
         ELSE <<Head(raw)>> \o cleaned(Tail(raw))

normalize_target_texts(raw) == IF raw = <<>> THEN <<>> ELSE cleaned(raw)

RawTargets(L) == SeqsUpTo(L \cup {Blank}, MaxTargets)

\* ---------------------------------------------------------------- pick_next_link
\* Mutant: a stale candidate ends the collection (break instead of continue)
available_from_break(candidates, i) ==
    IF i > Len(candidates) \/ Stale \in {candidates[j] : j \in 1..Len(candidates)}
    THEN <<>>
    ELSE [k \in 1..Len(candidates) |-> <<k, candidates[k]>>]

\* lines 196-203: (element, label) for every candidate whose label extraction
\* does not raise; the element is its position in the candidate list.
RECURSIVE available_from(_, _)
available_from(candidates, i) ==
    IF i > Len(candidates) THEN <<>>
    ELSE IF candidates[i] = Stale THEN available_from(candidates, i + 1)
         ELSE <<<<i, candidates[i]>>>> \o available_from(candidates, i + 1)

\* lines 212-214: the inner loop over available for one target
RECURSIVE first_match(_, _, _)
first_match(available, target, k) ==
    IF k > Len(available) THEN None
    ELSE IF available[k][2] = target THEN available[k]
         ELSE first_match(available, target, k + 1)

\* Mutant: when no target matches, falls back to the first available candidate
RECURSIVE scan_targets_fallback(_, _, _, _)
scan_targets_fallback(available, visited, targets, t) ==
    IF t > Len(targets) THEN available[1]
    ELSE IF targets[t] \in visited
         THEN scan_targets_fallback(available, visited, targets, t + 1)
         ELSE LET m == first_match(available, targets[t], 1)
              IN  IF m # None THEN m
                  ELSE scan_targets_fallback(available, visited, targets, t + 1)

\* Mutant: the loop over target_texts stops at the first unvisited target
scan_targets_first_only(available, visited, targets, t) ==
    LET unvisited == {u \in DOMAIN targets : targets[u] \notin visited}
        first == CHOOSE u \in unvisited : \A v \in unvisited : u <= v
    IN  IF unvisited = {} THEN None
        ELSE first_match(available, targets[first], 1)

\* lines 209-215: the loop over target_texts
RECURSIVE scan_targets(_, _, _, _)
scan_targets(available, visited, targets, t) ==
    IF t > Len(targets) THEN None
    ELSE IF targets[t] \in visited THEN scan_targets(available, visited, targets, t + 1)
         ELSE LET m == first_match(available, targets[t], 1)
              IN  IF m # None THEN m
                  ELSE scan_targets(available, visited, targets, t + 1)

\* Mutant: the visited test of line 218 is missing
first_unvisited_any(available, visited, k) == available[k]

\* Mutant: the loop keeps the last unvisited candidate instead of returning the
\* first
RECURSIVE first_unvisited_last(_, _, _)
first_unvisited_last(available, visited, k) ==
    IF k > Len(available) THEN None
    ELSE LET later == first_unvisited_last(available, visited, k + 1)
         IN  IF later # None THEN later
             ELSE IF available[k][2] \in visited THEN None
             ELSE available[k]

\* lines 217-222: discovery order
RECURSIVE first_unvisited(_, _, _)
first_unvisited(available, visited, k) ==
    IF k > Len(available) THEN None
    ELSE IF available[k][2] \in visited THEN first_unvisited(available, visited, k + 1)
         ELSE available[k]

pick_next_link(candidates, visited, targets) ==
    LET available == available_from(candidates, 1)
    IN  IF available = <<>> THEN None
        ELSE IF targets # <<>> THEN scan_targets(available, visited, targets, 1)
        ELSE first_unvisited(available, visited, 1)

\* ---------------------------------------------------------------- run_automation
\* Mutant: the add of line 96 is missing
visited_add_forgot(visited, label) == visited

\* Mutant: line 96 rebinds the set instead of adding to it
visited_add_replace(visited, label) == {label}

\* line 96: visited_labels.add(label)
visited_add(visited, label) == visited \cup {label}

\* Mutant: a failed export is swallowed and the loop goes on to the next link
Propagate_swallow(stage) == IF stage = "EXPORTING" THEN "SCANNING" ELSE "ABORTED"

\* Mutant: a failed export is tried again
Propagate_retry(stage) == IF stage = "EXPORTING" THEN "EXPORTING" ELSE "ABORTED"

\* An exception raised inside the while loop is caught nowhere in
\* run_automation: it leaves the loop and the function.
Propagate(stage) == "ABORTED"

\* lines 98-102: the stage after click_element returned
AfterClick == IF config.wait_after_link > 0 THEN "WAITING_CONTENT" ELSE "EXPORTING"

\* Mutant: the loop ends after the first export
AfterDownload_once == "DONE"

\* lines 107-110 and back to line 82
AfterDownload == IF config.back_after_export THEN "RETURNING" ELSE "SCANNING"

\* lines 104-105
AfterExport == IF config.download_wait > 0 THEN "WAITING_DOWNLOAD" ELSE AfterDownload

Configs == [wait_after_link : {0, 1},
            back_after_export : BOOLEAN,
            download_wait : {0, MaxDownloadWait},
            by_supported : BOOLEAN]

Init ==
    /\ pc = "SCANNING"
    /\ iteration = 0
    /\ link_elements = <<>>
    /\ next_item = None
    /\ visited_labels = {}
    /\ \E raw \in RawTargets(RunLabels) : target_texts = normalize_target_texts(raw)
    /\ config \in Configs
    /\ elapsed = 0
    /\ pending = 0
    /\ markers = 0
    /\ clicked = <<>>
    /\ exported = <<>>
    /\ failed_in = "none"
    /\ attempts = <<>>
    /\ export_attempts = <<>>
    /\ sleeps = 0
    /\ quit_calls = 0
    /\ outcome = "running"

Fail(stage) ==
    /\ pc' = Propagate(stage)
    /\ failed_in' = stage

\* lines 83-85: collect_link_elements returns the non-empty find_elements result p
Scan(p) ==
    /\ pc = "SCANNING"
    /\ iteration' = iteration + 1
    /\ link_elements' = p
    /\ pc' = "SELECTING"
    /\ attempts' = <<>>
    /\ export_attempts' = <<>>
    /\ sleeps' = 0
    /\ UNCHANGED <<next_item, visited_labels, target_texts, config, elapsed,
                   pending, markers, clicked, exported, failed_in>>
    /\ UNCHANGED main_vars

\* The page renders anything between two scans
Scanning == \E p \in Pages(RunLabels) : Scan(p)

\* lines 83-85: no element matches the selector for DEFAULT_TIMEOUT seconds
ScanTimeout ==
    /\ pc = "SCANNING"
    /\ iteration' = iteration + 1
    /\ Fail("SCANNING")
    /\ UNCHANGED <<link_elements, next_item, visited_labels, target_texts, config,
                   elapsed, pending, markers, clicked, exported>>
    /\ UNCHANGED <<attempts, export_attempts, sleeps, main_vars>>

\* lines 87-93
Selecting ==
    /\ pc = "SELECTING"
    /\ next_item' = pick_next_link(link_elements, visited_labels, target_texts)
    /\ pc' = IF next_item' = None THEN "DONE" ELSE "CLICKING"
    /\ UNCHANGED <<iteration, link_elements, visited_labels, target_texts, config,
                   elapsed, pending, markers, clicked, exported, failed_in>>
    /\ UNCHANGED <<attempts, export_attempts, sleeps, main_vars>>

\* click_element, lines 243-248: returns iff the scroll succeeded and the native
\* click or else the script click succeeded
click_element(scroll_ok, native_ok, script_ok) ==
    scroll_ok /\ (native_ok \/ script_ok)

\* Mutant: the script click is made whether or not the native click raised
click_attempts_always_script(element, scroll_ok, native_ok, script_ok) ==
    IF ~scroll_ok THEN <<<<"scroll", element, FALSE>>>>
    ELSE <<<<"scroll", element, TRUE>>, <<"native", element, native_ok>>,
           <<"script", element, script_ok>>>>

\* click_element, lines 243-248: the interactions it makes with the page, in
\* order, each with the element it acts on and whether it succeeded. The scroll
\* of line 243 is outside the try: when it raises nothing follows. The script
\* click of line 248 is made in the except clause of the native click only.
click_attempts(element, scroll_ok, native_ok, script_ok) ==
    IF ~scroll_ok THEN <<<<"scroll", element, FALSE>>>>
    ELSE IF native_ok
         THEN <<<<"scroll", element, TRUE>>, <<"native", element, TRUE>>>>
         ELSE <<<<"scroll", element, TRUE>>, <<"native", element, FALSE>>,
                <<"script", element, script_ok>>>>

\* lines 95-96, click_element returned
ClickOk ==
    /\ pc = "CLICKING"
    /\ \E scroll_ok, native_ok, script_ok \in BOOLEAN :
           /\ click_element(scroll_ok, native_ok, script_ok)
           /\ attempts' = click_attempts(next_item[1], scroll_ok, native_ok, script_ok)
    /\ visited_labels' = visited_add(visited_labels, next_item[2])
    /\ clicked' = Append(clicked, next_item[2])
    /\ pc' = AfterClick
    /\ UNCHANGED <<iteration, link_elements, next_item, target_texts, config,
                   elapsed, pending, markers, exported, failed_in>>
    /\ UNCHANGED <<export_attempts, sleeps, main_vars>>

\* line 95, click_element raised
ClickFail ==
    /\ pc = "CLICKING"
    /\ \E scroll_ok, native_ok, script_ok \in BOOLEAN :
           /\ ~click_element(scroll_ok, native_ok, script_ok)
           /\ attempts' = click_attempts(next_item[1], scroll_ok, native_ok, script_ok)
    /\ Fail("CLICKING")
    /\ UNCHANGED <<iteration, link_elements, next_item, visited_labels, target_texts,
                   config, elapsed, pending, markers, clicked, exported>>
    /\ UNCHANGED <<export_attempts, sleeps, main_vars>>

\* lines 98-100
WaitContent ==
    /\ pc = "WAITING_CONTENT"
    /\ pc' = "EXPORTING"
    /\ UNCHANGED <<iteration, link_elements, next_item, visited_labels, target_texts,
                   config, elapsed, pending, markers, clicked, exported, failed_in>>
    /\ UNCHANGED <<attempts, export_attempts, sleeps, main_vars>>

\* Mutant: the export control is clicked the way a link is, scroll first and a
\* script click when the native click raises
trigger_export_as_link(clickable, click_ok) ==
    IF ~clickable THEN <<>>
    ELSE IF click_ok THEN <<<<"scroll", TRUE>>, <<"native", TRUE>>>>
         ELSE <<<<"scroll", TRUE>>, <<"native", FALSE>>, <<"script", TRUE>>>>

\* trigger_export, lines 262-265: what it does to the export control, in order.
\* One WebDriverWait (lines 262-264); when it times out nothing is clicked, when
\* it returns the button button.click() is called once (line 265).
trigger_export(clickable, click_ok) ==
    IF ~clickable THEN <<>> ELSE <<<<"native", click_ok>>>>

\* trigger_export, lines 257-265: the control became clickable and was clicked;
\* the click makes the browser start a download, or not
ExportOk(starts_download) ==
    /\ pc = "EXPORTING"
    /\ config.by_supported
    /\ exported' = Append(exported, next_item[2])
    /\ IF starts_download
       THEN pending + markers < MaxOutstanding /\ pending' = pending + 1
       ELSE pending' = pending
    /\ pc' = AfterExport
    /\ elapsed' = 0
    /\ sleeps' = 0
    /\ attempts' = <<>>
    /\ export_attempts' = trigger_export(TRUE, TRUE)
    /\ UNCHANGED <<iteration, link_elements, next_item, visited_labels, target_texts,
                   config, markers, clicked, failed_in>>
    /\ UNCHANGED main_vars

\* trigger_export, lines 262-264: WebDriverWait times out
ExportTimeout ==
    /\ pc = "EXPORTING"
    /\ config.by_supported
    /\ Fail("EXPORTING")
    /\ UNCHANGED <<iteration, link_elements, next_item, visited_labels, target_texts,
                   config, elapsed, pending, markers, clicked, exported>>
    /\ attempts' = <<>>
    /\ export_attempts' = trigger_export(FALSE, FALSE)
    /\ UNCHANGED <<sleeps, main_vars>>

\* trigger_export, line 265: the control became clickable, button.click() raised
ExportClickFail ==
    /\ pc = "EXPORTING"
    /\ config.by_supported
    /\ Fail("EXPORTING")
    /\ UNCHANGED <<iteration, link_elements, next_item, visited_labels, target_texts,
                   config, elapsed, pending, markers, clicked, exported>>
    /\ attempts' = <<>>
    /\ export_attempts' = trigger_export(TRUE, FALSE)
    /\ UNCHANGED <<sleeps, main_vars>>

\* trigger_export, line 259: map_by raises ValueError
ExportBadLocator ==
    /\ pc = "EXPORTING"
    /\ ~config.by_supported
    /\ Fail("EXPORTING")
    /\ UNCHANGED <<iteration, link_elements, next_item, visited_labels, target_texts,
                   config, elapsed, pending, markers, clicked, exported>>
    /\ attempts' = <<>>
    /\ export_attempts' = <<>>
    /\ UNCHANGED <<sleeps, main_vars>>

\* Mutant: the loop of line 273 also runs at the deadline itself
before_deadline_inclusive(now, deadline) == now <= deadline

\* wait_for_downloads, line 273: time.time() < deadline, in whole seconds since
\* the call
before_deadline(now, deadline) == now < deadline

\* Mutant: the "not" of line 274 is missing
no_crdownload_inverted(files) == files > 0

\* wait_for_downloads, line 274: not any(target_dir.glob("*.crdownload"))
no_crdownload(files) == files = 0

\* wait_for_downloads, lines 273-275: no marker at this check
WaitDownloadsReturn ==
    /\ pc = "WAITING_DOWNLOAD"
    /\ before_deadline(elapsed, config.download_wait)
    /\ no_crdownload(markers)
    /\ pc' = AfterDownload
    /\ elapsed' = 0
    /\ UNCHANGED <<iteration, link_elements, next_item, visited_labels, target_texts,
                   config, pending, markers, clicked, exported, failed_in>>
    /\ UNCHANGED <<attempts, export_attempts, sleeps, main_vars>>

\* wait_for_downloads, lines 273-276: a marker is present, sleep one second
WaitDownloadsSleep ==
    /\ pc = "WAITING_DOWNLOAD"
    /\ before_deadline(elapsed, config.download_wait)
    /\ ~no_crdownload(markers)
    /\ elapsed' = elapsed + 1
    /\ sleeps' = sleeps + 1
    /\ UNCHANGED <<attempts, export_attempts>>
    /\ UNCHANGED <<pc, iteration, link_elements, next_item, visited_labels,
                   target_texts, config, pending, markers, clicked, exported,
                   failed_in>>
    /\ UNCHANGED main_vars

\* wait_for_downloads, lines 273 and 278-280: the deadline has passed
WaitDownloadsTimeout ==
    /\ pc = "WAITING_DOWNLOAD"
    /\ ~before_deadline(elapsed, config.download_wait)
    /\ Fail("WAITING_DOWNLOAD")
    /\ elapsed' = 0
    /\ UNCHANGED <<iteration, link_elements, next_item, visited_labels, target_texts,
                   config, pending, markers, clicked, exported>>
    /\ UNCHANGED <<attempts, export_attempts, sleeps, main_vars>>

\* lines 107-110: driver.back() and wait_for_page_ready returned
ReturningOk ==
    /\ pc = "RETURNING"
    /\ pc' = "SCANNING"
    /\ UNCHANGED <<iteration, link_elements, next_item, visited_labels, target_texts,
                   config, elapsed, pending, markers, clicked, exported, failed_in>>
    /\ UNCHANGED <<attempts, export_attempts, sleeps, main_vars>>

\* lines 109-110: driver.back() or wait_for_page_ready raised
ReturningFail ==
    /\ pc = "RETURNING"
    /\ Fail("RETURNING")
    /\ UNCHANGED <<iteration, link_elements, next_item, visited_labels, target_texts,
                   config, elapsed, pending, markers, clicked, exported>>
    /\ UNCHANGED <<attempts, export_attempts, sleeps, main_vars>>

\* The browser's download manager: writes the .crdownload marker of a requested
\* download some time after the export click ...
DownloadStart ==
    /\ pending > 0
    /\ pending' = pending - 1
    /\ markers' = markers + 1
    /\ UNCHANGED loop_vars
    /\ UNCHANGED main_vars

\* ... and removes it when the download completes.
DownloadFinish ==
    /\ markers > 0
    /\ markers' = markers - 1
    /\ UNCHANGED <<pending, loop_vars>>
    /\ UNCHANGED main_vars

\* Mutant: driver.quit() is called without suppress(Exception), so that its
\* exception replaces the outcome of the run
main_outcome_unsuppressed(run_raised, quit_raised) ==
    IF quit_raised THEN "quit_raised"
    ELSE IF run_raised THEN "raised" ELSE "returned"

\* main, lines 53-60: what main's caller sees. An exception of run_automation
\* is re-raised at line 57; one of driver.quit() is suppressed at line 59.
main_outcome(run_raised, quit_raised) ==
    IF run_raised THEN "raised" ELSE "returned"

\* main, lines 55-60: run_automation has returned or raised; the finally block
\* calls driver.quit(), which succeeds or raises
MainFinally ==
    /\ pc \in {"DONE", "ABORTED"}
    /\ outcome = "running"
    /\ quit_calls' = quit_calls + 1
    /\ \E quit_raised \in BOOLEAN :
           outcome' = main_outcome(pc = "ABORTED", quit_raised)
    /\ UNCHANGED <<pending, markers, loop_vars>>

Next ==
    \/ Scanning
    \/ ScanTimeout
    \/ Selecting
    \/ ClickOk
    \/ ClickFail
    \/ WaitContent
    \/ ExportOk(TRUE)
    \/ ExportOk(FALSE)
    \/ ExportTimeout
    \/ ExportClickFail
    \/ ExportBadLocator
    \/ WaitDownloadsReturn
    \/ WaitDownloadsSleep
    \/ WaitDownloadsTimeout
    \/ ReturningOk
    \/ ReturningFail
    \/ MainFinally
    \/ DownloadStart
    \/ DownloadFinish

Spec == Init /\ [][Next]_vars

\* The steps of the program's single thread (all but the download manager's)
MainNext ==
    \/ Scanning
    \/ ScanTimeout
    \/ Selecting
    \/ ClickOk
    \/ ClickFail
    \/ WaitContent
    \/ ExportOk(TRUE)
    \/ ExportOk(FALSE)
    \/ ExportTimeout
    \/ ExportClickFail
    \/ ExportBadLocator
    \/ WaitDownloadsReturn
    \/ WaitDownloadsSleep
    \/ WaitDownloadsTimeout
    \/ ReturningOk
    \/ ReturningFail
    \/ MainFinally

\* The target lists of the runs checked for progress: none, one label, one label
\* twice, two labels in either order
LiveTargets == {<<>>, <<"A">>, <<"A", "A">>, <<"A", "B">>, <<"B", "A">>}

InitLive == Init /\ target_texts \in LiveTargets

\* The thread keeps running until main returns or raises: every wait of the
\* loop is a bounded poll.
SpecLive == InitLive /\ [][Next]_vars /\ WF_vars(MainNext)

\* ------------------------------------------------ the selector on its own
\* One call pick_next_link(link_elements, visited_labels, target_texts) on any
\* candidate list, visited set and normalised target list.
InitSelect ==
    /\ pc = "SELECTING"
    /\ iteration = 1
    /\ link_elements \in Pages(Labels)
    /\ next_item = None
    /\ visited_labels \in SUBSET Labels
    /\ \E raw \in RawTargets(Labels) : target_texts = normalize_target_texts(raw)
    /\ config = [wait_after_link |-> 0, back_after_export |-> FALSE,
                 download_wait |-> 0, by_supported |-> TRUE]
    /\ elapsed = 0
    /\ pending = 0
    /\ markers = 0
    /\ clicked = <<>>
    /\ exported = <<>>
    /\ failed_in = "none"
    /\ attempts = <<>>
    /\ export_attempts = <<>>
    /\ sleeps = 0
    /\ quit_calls = 0
    /\ outcome = "running"

SpecSelect == InitSelect /\ [][Selecting]_vars

\* ------------------------------------------------ the end-to-end run
\* No target list, zero settle duration, no back-navigation, a page that renders
\* the same candidates with pairwise distinct labels on every scan, every click
\* and export succeeding and no download pending.
StablePages ==
    {p \in UNION {[1..k -> Labels] : k \in 1..Cardinality(Labels)} :
        \A i, j \in DOMAIN p : p[i] = p[j] => i = j}

InitE2E ==
    /\ pc = "SCANNING"
    /\ iteration = 0
    /\ link_elements = <<>>
    /\ next_item = None
    /\ visited_labels = {}
    /\ target_texts = normalize_target_texts(<<>>)
    /\ config \in {c \in Configs : /\ c.wait_after_link = 0
                                    /\ ~c.back_after_export
                                    /\ c.by_supported}
    /\ elapsed = 0
    /\ pending = 0
    /\ markers = 0
    /\ clicked = <<>>
    /\ exported = <<>>
    /\ failed_in = "none"
    /\ attempts = <<>>
    /\ export_attempts = <<>>
    /\ sleeps = 0
    /\ quit_calls = 0
    /\ outcome = "running"

\* every scan returns what the scan before it returned
ScanStable ==
    \E p \in StablePages : (iteration = 0 \/ p = link_elements) /\ Scan(p)

NextE2E ==
    \/ ScanStable
    \/ Selecting
    \/ ClickOk
    \/ ExportOk(FALSE)
    \/ WaitDownloadsReturn

\* run_automation is one thread that keeps running until it returns
SpecE2E == InitE2E /\ [][NextE2E]_vars /\ WF_vars(NextE2E)

\* ---------------------------------------------------------------- properties
Range(f) == {f[i] : i \in DOMAIN f}

Min(S) == CHOOSE x \in S : \A y \in S : x <= y

\* the positions of the candidates that bear label l (a stale one bears none)
Holders(l) == {i \in DOMAIN link_elements : link_elements[i] = l}

\* the positions of the target list whose label is not yet visited
UnvisitedTargets == {t \in DOMAIN target_texts : target_texts[t] \notin visited_labels}

\* the call of pick_next_link on link_elements, visited_labels and target_texts
\* has returned, and nothing has changed its arguments since
Selected == pc \in {"CLICKING", "DONE"}

\* C1: with a non-empty target list whose first unvisited label is t, the
\* selector returns the first candidate labelled t, and returns None when no
\* candidate is labelled t (it does not go on to a later target).
C1_NoFallThrough ==
    (Selected /\ target_texts # <<>> /\ UnvisitedTargets # {}) =>
        LET t == target_texts[Min(UnvisitedTargets)]
        IN  IF Holders(t) # {}
            THEN next_item = <<Min(Holders(t)), t>>
            ELSE next_item = None

\* first position of label l in the target list
TargetIndex(l) == Min({t \in DOMAIN target_texts : target_texts[t] = l})

\* C2: with a target list, the labels clicked in a run are all in the list and
\* are clicked in the list's order: none is clicked after a label that comes
\* later in the list.
C2_TargetOrder ==
    target_texts # <<>> =>
        /\ \A i \in DOMAIN clicked : clicked[i] \in Range(target_texts)
        /\ \A i, j \in DOMAIN clicked :
               i < j => TargetIndex(clicked[i]) <= TargetIndex(clicked[j])

\* C3: the label chosen for a click is never in the visited set, and no label is
\* clicked twice in a run, also when several elements bear it.
C3_NoReprocess ==
    /\ pc = "CLICKING" => next_item[2] \notin visited_labels
    /\ \A i, j \in DOMAIN clicked : clicked[i] = clicked[j] => i = j

\* two elements bear a label that was clicked in an earlier cycle, and the
\* selector has just passed over both
C3_Witness ==
    /\ Selected
    /\ iteration > 1
    /\ \E i, j \in DOMAIN link_elements :
           /\ i # j
           /\ link_elements[i] = link_elements[j]
           /\ link_elements[i] \in Range(clicked)

\* C4: one call of the selector never returns a label of the visited set and,
\* with a non-empty target list, never a label that is not in the list.
C4_NeverVisitedNorOffTarget ==
    (Selected /\ next_item # None) =>
        /\ next_item[2] \notin visited_labels
        /\ target_texts # <<>> => next_item[2] \in Range(target_texts)

\* a label is returned although a visited candidate and an off-target candidate
\* were on offer
C4_Witness ==
    /\ pc = "CLICKING"
    /\ target_texts # <<>>
    /\ \E i \in DOMAIN link_elements : link_elements[i] \in visited_labels
    /\ \E i \in DOMAIN link_elements :
           link_elements[i] \in Labels \ Range(target_texts)

\* C5: without a target list the selector returns the first candidate, in
\* discovery order, that is not stale and whose label is not visited, with that
\* label; it returns None exactly when there is no such candidate.
C5_DiscoveryOrder ==
    (Selected /\ target_texts = <<>>) =>
        LET eligible == {i \in DOMAIN link_elements :
                            /\ link_elements[i] # Stale
                            /\ link_elements[i] \notin visited_labels}
        IN  IF eligible = {}
            THEN next_item = None
            ELSE next_item = <<Min(eligible), link_elements[Min(eligible)]>>

\* candidates [X, Y] with X visited: the second candidate is returned
C5_Witness ==
    /\ pc = "CLICKING"
    /\ target_texts = <<>>
    /\ Len(link_elements) = 2
    /\ link_elements[1] \in visited_labels
    /\ next_item = <<2, link_elements[2]>>

\* C6: in the end-to-end run the loop reaches DONE, and it does so having
\* clicked and exported the page's labels once each in discovery order, with
\* exactly them in the visited set.
C6_EndToEnd ==
    /\ [](pc = "DONE" => /\ clicked = link_elements
                         /\ exported = link_elements
                         /\ visited_labels = Range(link_elements)
                         /\ failed_in = "none")
    /\ <>(pc = "DONE")

\* three links L1, L2, L3 processed, loop DONE
C6_Witness ==
    /\ pc = "DONE"
    /\ Len(link_elements) = 3
    /\ Len(clicked) = 3
    /\ config.download_wait = 0

\* C7: the export control is never clicked while a download requested by an
\* earlier export still has its marker in the directory or has yet to write it
\* (stated for the runs that call wait_for_downloads after every export).
C7_NoOverlap ==
    [][(config.download_wait > 0 /\ exported' # exported)
          => (pending = 0 /\ markers = 0)]_vars

\* C8: after a fatal failure the loop does nothing more: no scan, selection,
\* click or export, and no change of its state.
C8_AbortIsFinal ==
    [][failed_in # "none" => UNCHANGED loop_vars]_vars

\* the download wait timed out while an unvisited candidate was on the page
C8_Witness ==
    /\ pc = "ABORTED"
    /\ failed_in = "WAITING_DOWNLOAD"
    /\ \E i \in DOMAIN link_elements :
           link_elements[i] \in RunLabels \ visited_labels

\* C9: when the run aborts after the click stage of a cycle, that cycle's label
\* is in the visited set; when it aborts in the click stage, it is not.
C9_VisitedOnAbort ==
    /\ failed_in \in {"WAITING_CONTENT", "EXPORTING", "WAITING_DOWNLOAD", "RETURNING"}
           => (next_item # None /\ next_item[2] \in visited_labels)
    /\ failed_in = "CLICKING"
           => (next_item # None /\ next_item[2] \notin visited_labels)

\* an abort in the export stage of the second cycle
C9_Witness ==
    /\ pc = "ABORTED"
    /\ failed_in = "EXPORTING"
    /\ iteration = 2

\* C10: the visited set never loses a member, and it changes only when
\* click_element returns, by gaining exactly that cycle's label, which that step
\* always adds.
C10_SingleMutationPoint ==
    [][/\ visited_labels \subseteq visited_labels'
       /\ visited_labels' # visited_labels =>
              /\ pc = "CLICKING"
              /\ pc' \in {"WAITING_CONTENT", "EXPORTING"}
              /\ visited_labels' = visited_labels \cup {next_item[2]}
       /\ (pc = "CLICKING" /\ pc' \notin {"CLICKING", "ABORTED"}) =>
              visited_labels' = visited_labels \cup {next_item[2]}]_vars

\* the second cycle's back-navigation is reached with both labels visited
C10_Witness ==
    /\ pc = "RETURNING"
    /\ Cardinality(visited_labels) = 2

\* ------------------------------------------------ the download waiter on its own
\* One call wait_for_downloads(download_dir, timeout), for every timeout from 0
\* and every state of the download directory, beside the download manager.
InitWaiter ==
    /\ pc = "WAITING_DOWNLOAD"
    /\ iteration = 1
    /\ link_elements = <<"A">>
    /\ next_item = <<1, "A">>
    /\ visited_labels = {"A"}
    /\ target_texts = <<>>
    /\ config \in [wait_after_link : {0, 1},
                    back_after_export : BOOLEAN,
                    download_wait : 0..MaxDownloadWait,
                    by_supported : {TRUE}]
    /\ elapsed = 0
    /\ pending \in 0..MaxOutstanding
    /\ markers \in 0..(MaxOutstanding - pending)
    /\ clicked = <<"A">>
    /\ exported = <<"A">>
    /\ failed_in = "none"
    /\ attempts = <<>>
    /\ export_attempts = <<>>
    /\ sleeps = 0
    /\ quit_calls = 0
    /\ outcome = "running"

NextWaiter ==
    \/ WaitDownloadsReturn
    \/ WaitDownloadsSleep
    \/ WaitDownloadsTimeout
    \/ DownloadStart
    \/ DownloadFinish

SpecWaiter == InitWaiter /\ [][NextWaiter]_vars

\* C11: on every exit path of run_automation (DONE or a fatal error)
\* driver.quit() ends up called, exactly once, and main then raises exactly when
\* the run failed, whether or not driver.quit() itself raised.
C11_Finalization ==
    /\ [](quit_calls <= 1)
    /\ [](outcome # "running" =>
            /\ quit_calls = 1
            /\ outcome = IF failed_in # "none" THEN "raised" ELSE "returned")
    /\ <>(outcome # "running")

\* main has raised after a run that aborted in the export stage
C11_Witness ==
    /\ outcome = "raised"
    /\ quit_calls = 1
    /\ failed_in = "EXPORTING"

\* the call of wait_for_downloads has returned
WaiterReturned == pc \in {"RETURNING", "SCANNING"} /\ failed_in = "none"

\* C12: the waiter checks the directory at the whole seconds 0, 1, ... before
\* the deadline. It returns only at a check strictly before the deadline that
\* finds no marker, and it does so at the first such check (it sleeps on only
\* after a check that found a marker); it fails only when every check before
\* the deadline found a marker, and never goes past the deadline.
C12_WaiterOutcome ==
    /\ [][pc = "WAITING_DOWNLOAD" =>
            /\ WaiterReturned' =>
                   (markers = 0 /\ elapsed < config.download_wait)
            /\ failed_in' = "WAITING_DOWNLOAD" =>
                   (elapsed = config.download_wait /\ sleeps = config.download_wait)
            /\ sleeps' = sleeps + 1 =>
                   (markers > 0 /\ elapsed < config.download_wait
                    /\ elapsed' = elapsed + 1)
            /\ (markers = 0 /\ elapsed < config.download_wait /\ pc' # pc) =>
                   WaiterReturned']_vars
    /\ [](pc = "WAITING_DOWNLOAD" =>
            (elapsed = sleeps /\ elapsed <= config.download_wait))

\* a marker seen at the first check was gone at a later check before the
\* deadline, and the waiter has returned
C12_Witness ==
    /\ WaiterReturned
    /\ sleeps >= 1
    /\ sleeps < config.download_wait

AttemptsOf(kind) == {i \in DOMAIN attempts : attempts[i][1] = kind}

\* C14: click_element scrolls first, then makes the native click; it makes the
\* script click exactly when the native click raised, once and on the same
\* element; it returns exactly when the native or the script click succeeded
\* and raises exactly when the scroll failed or both clicks failed.
C14_ClickExecutor ==
    attempts # <<>> =>
        /\ attempts[1][1] = "scroll"
        /\ \A i \in DOMAIN attempts : attempts[i][2] = next_item[1]
        /\ Cardinality(AttemptsOf("scroll")) = 1
        /\ Cardinality(AttemptsOf("native")) <= 1
        /\ Cardinality(AttemptsOf("script")) <= 1
        /\ AttemptsOf("native") # {} <=> attempts[1][3]
        /\ AttemptsOf("native") # {} => attempts[2][1] = "native"
        /\ AttemptsOf("script") # {} <=>
               (\E i \in AttemptsOf("native") : ~attempts[i][3])
        /\ AttemptsOf("script") # {} => attempts[3][1] = "script"
        /\ failed_in # "CLICKING" <=>
               \/ \E i \in AttemptsOf("native") : attempts[i][3]
               \/ \E i \in AttemptsOf("script") : attempts[i][3]
        /\ failed_in = "CLICKING" <=>
               \/ ~attempts[1][3]
               \/ /\ \E i \in AttemptsOf("native") : ~attempts[i][3]
                  /\ \E i \in AttemptsOf("script") : ~attempts[i][3]
        /\ failed_in # "CLICKING" =>
               (clicked # <<>> /\ clicked[Len(clicked)] = next_item[2])

\* the native click raised, the script click succeeded, click_element returned
C14_Witness ==
    /\ Len(attempts) = 3
    /\ attempts[3] = <<"script", next_item[1], TRUE>>
    /\ pc \in {"WAITING_CONTENT", "EXPORTING"}

\* C15: trigger_export makes one wait for the export control; when the control
\* becomes clickable it is clicked once, natively, with no scroll and no script
\* click, and when it does not the call raises without a click; either way the
\* export stage is left at once, to the next stage or to the abort.
C15_ExportTrigger ==
    /\ [][pc = "EXPORTING" =>
            /\ pc' \in {"EXPORTING", AfterExport, "ABORTED"}
            /\ pc' = AfterExport =>
                   /\ export_attempts' = <<<<"native", TRUE>>>>
                   /\ exported' = Append(exported, next_item[2])
            /\ pc' = "ABORTED" =>
                   /\ export_attempts' \in {<<>>, <<<<"native", FALSE>>>>}
                   /\ exported' = exported
                   /\ failed_in' = "EXPORTING"
            /\ pc' = "EXPORTING" => UNCHANGED loop_vars]_vars
    /\ [][pc # "EXPORTING" => (exported' = exported /\
                                (export_attempts' = export_attempts
                                    \/ export_attempts' = <<>>))]_vars
    /\ [](Len(export_attempts) <= 1)

\* the export control was clicked once for the link just opened
C15_Witness ==
    /\ pc \in {"WAITING_DOWNLOAD", "RETURNING"}
    /\ export_attempts = <<<<"native", TRUE>>>>
    /\ exported # <<>>
    /\ exported[Len(exported)] = next_item[2]

\* C16: with an export locator kind that map_by does not support, no candidate
\* link is ever clicked and none is added to visited_labels (the run is aborted
\* before that).
C16_BadLocatorBeforeAnyClick ==
    ~config.by_supported => (clicked = <<>> /\ visited_labels = {})

\* the candidate list without its stale elements
WithoutStale(candidates) == SelectSeq(candidates, LAMBDA e : e # Stale)

\* the position that element i of the list has once the stale ones are removed
RankOf(candidates, i) == Cardinality({j \in 1..i : candidates[j] # Stale})

\* the candidate list after the extraction of element i has come to succeed
Revived(candidates, i, l) == [candidates EXCEPT ![i] = l]

Eligible(l) == target_texts = <<>> \/ l \in Range(target_texts)

\* C17: with any elements of the candidate list stale, pick_next_link returns
\* (it does not raise), and it returns what it returns for the list with the
\* stale elements removed: nothing in both cases, or the same element with the
\* same label. Nothing is remembered about a dropped candidate: when nothing
\* was selected, a call in which the extraction of a dropped candidate yields
\* an eligible unvisited label selects that candidate.
C17_StaleSkipped ==
    Selected =>
        LET clean == pick_next_link(WithoutStale(link_elements), visited_labels,
                                    target_texts)
        IN  /\ failed_in = "none"
            /\ next_item = None <=> clean = None
            /\ next_item # None =>
                   /\ link_elements[next_item[1]] # Stale
                   /\ clean = <<RankOf(link_elements, next_item[1]), next_item[2]>>
            /\ next_item = None =>
                   \A i \in DOMAIN link_elements : \A l \in Labels \ visited_labels :
                       (link_elements[i] = Stale /\ Eligible(l)) =>
                           pick_next_link(Revived(link_elements, i, l), visited_labels,
                                          target_texts) = <<i, l>>

\* the first candidate was stale and the second one was selected
C17_Witness ==
    /\ pc = "CLICKING"
    /\ Len(link_elements) = 2
    /\ link_elements[1] = Stale
    /\ next_item[1] = 2

\* C18: with every wait bounded and the labels drawn from the finite set
\* RunLabels, every run ends in DONE or ABORTED; the links clicked (hence the
\* cycles completed) are at most as many as the distinct labels, and at most as
\* many as the distinct entries of a non-empty target list; a failed export
\* aborts the run in the cycle it occurs in, the first one when no export has
\* succeeded.
C18_Termination ==
    /\ <>(pc \in {"DONE", "ABORTED"})
    /\ [](/\ Len(exported) <= Len(clicked)
          /\ Len(clicked) <= Cardinality(RunLabels)
          /\ iteration <= Cardinality(RunLabels) + 1)
    /\ [](target_texts # <<>> =>
             /\ Len(clicked) <= Cardinality(Range(target_texts))
             /\ iteration <= Cardinality(Range(target_texts)) + 1)
    /\ [](failed_in = "EXPORTING" =>
             /\ pc = "ABORTED"
             /\ iteration = Len(exported) + 1
             /\ exported = <<>> => (iteration = 1 /\ Len(clicked) = 1))

\* a run over a two-entry target list that ended after as many cycles
C18_Witness ==
    /\ pc = "DONE"
    /\ Cardinality(Range(target_texts)) = 2
    /\ Len(exported) = 2
    /\ iteration = 3

\* C19: when the loop is DONE, every label that a non-stale candidate of the
\* last scan bears and that is eligible (any label without a target list, a
\* label of the target list otherwise) is in visited_labels, and the run has
\* not failed.
C19_DoneGuarantee ==
    pc = "DONE" =>
        /\ failed_in = "none"
        /\ next_item = None
        /\ \A i \in DOMAIN link_elements :
               (link_elements[i] # Stale /\ Eligible(link_elements[i]))
                   => link_elements[i] \in visited_labels

\* DONE after a link was processed, with a target label that was never visited
\* because no candidate of the last scan bears it
C19_Witness ==
    /\ pc = "DONE"
    /\ clicked # <<>>
    /\ \E t \in DOMAIN target_texts :
           /\ target_texts[t] \notin visited_labels
           /\ Holders(target_texts[t]) = {}
    /\ \E i \in DOMAIN link_elements : link_elements[i] \in visited_labels

\* C20: a scan ends either with a non-empty candidate list, and the loop goes
\* on to select from it, or with the timeout of its wait, and the run is
\* aborted; the selector is never run on an empty candidate list and no run
\* whose scan timed out is DONE.
C20_EmptyScanAborts ==
    /\ [][(pc = "SCANNING" /\ pc' # pc) =>
            \/ pc' = "SELECTING" /\ link_elements' # <<>> /\ failed_in' = "none"
            \/ pc' = "ABORTED" /\ failed_in' = "SCANNING"
                  /\ link_elements' = link_elements]_vars
    /\ [](pc \in {"SELECTING", "CLICKING", "DONE"} => link_elements # <<>>)
    /\ [](failed_in = "SCANNING" => pc = "ABORTED")
    /\ [][pc = "ABORTED" => pc' = "ABORTED"]_vars

\* a link was processed without back-navigation and the next scan timed out
C20_Witness ==
    /\ pc = "ABORTED"
    /\ failed_in = "SCANNING"
    /\ iteration = 2
    /\ ~config.back_after_export
    /\ exported # <<>>

====
